---- MODULE Spec2Model ----
(***************************************************************************)
(* the-planet-mars.org: the Post / Subscriber / Admin entities             *)
(* (src/domain/models.py), the asyncpg repositories                        *)
(* (src/persistence/repositories.py) and the FastAPI handlers (src/main.py)*)
(* as a state machine.                                                     *)
(*                                                                         *)
(* Five specifications share the state:                                    *)
(*   DomainSpec  a caller of the entity and repository API holding one     *)
(*               in-memory Post;                                           *)
(*   RepoSpec    a caller saving Post, Subscriber and Admin entities;      *)
(*   Spec        the admin and engagement handlers, one request in flight  *)
(*               per client, interleaved at their storage awaits;          *)
(*   PublicSpec  the public language-scoped routes;                        *)
(*   MigrationSpec  concurrent calls of run_migration                      *)
(*               (migrate_v1_multi_lang.py).                               *)
(***************************************************************************)
EXTENDS Integers, Sequences, FiniteSets, TLC

\* ---------------------------------------------------------------- bounds
MaxId == 2        \* uuid4 values handed out (posts ever created)
MaxClock == 1     \* readings of datetime.utcnow()
MaxCount == 1     \* cap on in-memory increments of views / likes
NumClients == 2   \* browsers, each with its own cookie jar
NumMigrators == 2 \* processes that may call run_migration at the same time
MaxRuns == 2      \* calls of run_migration by one process

\* ------------------------------------------------------------ value sets
NULL == "NULL"                  \* Python None / SQL NULL in a text position
NoTime == -1                    \* Python None in a datetime position
DRAFT == "draft"
PUBLISHED == "published"
\* a language check that lets one more language through
SUPPORTED_LANGS_with_fr == {"en", "it", "fr"}
SUPPORTED_LANGS == {"en", "it"}

Titles == {"", "A"}             \* form values of the title field
TitlesIt == {NULL, "ti"}        \* form values of title_it / content_it
Ids == 1..MaxId
Times == 0..MaxClock

\* python-slugify on the titles above: lower-cases, so it is not the identity
slugify(t) == CASE t = "A" -> "a" [] t = "S1" -> "s1" [] t = "S2" -> "s2" [] OTHER -> ""

Clients == 1..NumClients

VARIABLES
    posts, subscribers, admins,   \* the three tables, rows in insertion order
    clock,                        \* what datetime.utcnow() returns now
    nextId,                       \* the next uuid4 not yet stored
    ent, ret,                     \* DomainSpec: the caller's Post, the last call's outcome
    pc, req, local,               \* per client: handler in flight, its path parameters, its locals
    cookie, session,              \* per client: the liked_posts cookie, the session's "user"
    resp,                         \* the response sent last
    columns,                      \* the secondary-language columns of table posts, as added
    lock,                         \* the migrator whose open transaction holds the table's lock, or 0
    mig                           \* per migrator: where its run_migration call stands

storeVars == <<posts, subscribers, admins, clock, nextId>>
domVars == <<ent, ret>>
appVars == <<pc, req, local, cookie, session, resp>>
migVars == <<columns, lock, mig>>
vars == <<posts, subscribers, admins, clock, nextId, ent, ret,
          pc, req, local, cookie, session, resp, columns, lock, mig>>

\* --------------------------------------------------- src/domain/models.py
\* The Post dataclass: its fields in declaration order.
Post(id, title, title_it, slug, content, content_it, media_url, media_type, tags, status, language, views, likes, created_at, published_at) ==
    [id |-> id, title |-> title, title_it |-> title_it, slug |-> slug,
     content |-> content, content_it |-> content_it, media_url |-> media_url,
     media_type |-> media_type, tags |-> tags, status |-> status,
     language |-> language, views |-> views, likes |-> likes,
     created_at |-> created_at, published_at |-> published_at]

\* A placeholder where Python holds None instead of a Post.
NoPost == Post(0, NULL, NULL, NULL, NULL, NULL, NULL, NULL, <<>>, DRAFT, NULL, 0, 0, NoTime, NoTime)

\* Post.create: fresh id, status draft, language "en", views = likes = 0,
\* created_at from the default factory, published_at None.
Post_create(id, title, slug, content, media_url, media_type, tags, title_it, content_it, now) ==
    Post(id, title, title_it, slug, content, content_it, media_url, media_type,
         tags, DRAFT, "en", 0, 0, now, NoTime)

\* Post.publish with the two assignments made before the title is checked.
Post_publish_assign_first(p, now) ==
    IF p.title \in {NULL, ""}
    THEN [exc |-> "ValueError", post |-> [p EXCEPT !.status = PUBLISHED, !.published_at = now]]
    ELSE [exc |-> "", post |-> [p EXCEPT !.status = PUBLISHED, !.published_at = now]]

\* Post.publish without the title check.
Post_publish_unchecked(p, now) ==
    [exc |-> "", post |-> [p EXCEPT !.status = PUBLISHED, !.published_at = now]]

\* Post.publish without the assignment to published_at.
Post_publish_status_only(p, now) ==
    IF p.title \in {NULL, ""}
    THEN [exc |-> "ValueError", post |-> p]
    ELSE [exc |-> "", post |-> [p EXCEPT !.status = PUBLISHED]]

\* Post.publish: `not self.title` is true of None and of "".
Post_publish(p, now) ==
    IF p.title \in {NULL, ""}
    THEN [exc |-> "ValueError", post |-> p]
    ELSE [exc |-> "", post |-> [p EXCEPT !.status = PUBLISHED, !.published_at = now]]

Post_increment_views(p) == [p EXCEPT !.views = @ + 1]

Post_increment_likes(p) == [p EXCEPT !.likes = @ + 1]

\* Subscriber.create: is_active defaults to True.
Subscriber_create(email, now) == [email |-> email, subscribed_at |-> now, is_active |-> TRUE]

Admin_create(username, password_hash) == [username |-> username, password_hash |-> password_hash]

\* ------------------------------------- src/persistence/repositories.py
\* The thirteen values PostRepository.save binds to $1..$13.
SaveArgs(p) ==
    [id |-> p.id, title |-> p.title, slug |-> p.slug, content |-> p.content,
     media_url |-> p.media_url, media_type |-> p.media_type, tags |-> p.tags,
     status |-> p.status, language |-> p.language, views |-> p.views,
     likes |-> p.likes, created_at |-> p.created_at, published_at |-> p.published_at]

RowsWithId(tbl, id) == {i \in DOMAIN tbl : tbl[i].id = id}

\* schema.sql is not part of the sources; the posts table's slug is unique
\* (spec.md, section 3), so a second row with a stored slug is refused.
SlugClash(tbl, row) ==
    \E i \in DOMAIN tbl : tbl[i].slug = row.slug /\ tbl[i].id # row.id

\* PostRepository.save as a plain INSERT of a new row.
PostRepository_save_insert_only(tbl, p) ==
    [exc |-> "", tbl |-> Append(tbl, SaveArgs(p))]

\* PostRepository.save: INSERT ... ON CONFLICT (id) DO UPDATE SET every
\* column but id and created_at.
PostRepository_save(tbl, p) ==
    LET row == SaveArgs(p)
        hit == RowsWithId(tbl, row.id)
    IN  IF SlugClash(tbl, row)
        THEN [exc |-> "UniqueViolationError", tbl |-> tbl]
        ELSE IF hit = {}
        THEN [exc |-> "", tbl |-> Append(tbl, row)]
        ELSE [exc |-> "",
              tbl |-> [i \in DOMAIN tbl |->
                         IF i \in hit
                         THEN [row EXCEPT !.created_at = tbl[i].created_at]
                         ELSE tbl[i]]]

\* _to_entity with the two secondary-language fields passed as None.
to_entity_defaults(row) ==
    [exc |-> "",
     post |-> Post(row.id, row.title, NULL, row.slug, row.content, NULL,
                   row.media_url, row.media_type, row.tags, row.status,
                   row.language, row.views, row.likes, row.created_at,
                   row.published_at)]

\* PostRepository._to_entity: calls Post(...) with thirteen keywords and
\* without title_it and content_it, which the dataclass declares without a
\* default, so the constructor raises TypeError for every row.
to_entity(row) == [exc |-> "TypeError", post |-> NoPost]

\* The outcome of a point lookup: an exception, None, or a Post.
Lookup(hit, tbl) ==
    IF hit = {}
    THEN {[exc |-> "", found |-> FALSE, post |-> NoPost]}
    ELSE {[exc |-> to_entity(tbl[i]).exc,
           found |-> to_entity(tbl[i]).exc = "",
           post |-> to_entity(tbl[i]).post] : i \in hit}

\* find_by_id: fetchrow on the primary key.
find_by_id(tbl, post_id) == Lookup(RowsWithId(tbl, post_id), tbl)

\* find_by_slug: fetchrow without ORDER BY returns any one matching row.
find_by_slug(tbl, slug) == Lookup({i \in DOMAIN tbl : tbl[i].slug = slug}, tbl)


\* The rows of a SELECT ... ORDER BY published_at DESC in every order the
\* sort allows (rows with equal published_at come in any order).
Ordered(tbl, hit) ==
    {f \in [1..Cardinality(hit) -> hit] :
        /\ \A a, b \in 1..Cardinality(hit) : f[a] = f[b] => a = b
        /\ \A a, b \in 1..Cardinality(hit) :
             a < b => tbl[f[a]].published_at >= tbl[f[b]].published_at}

\* LIMIT limit OFFSET offset
Page(f, limit, offset) ==
    [k \in 1..(IF Len(f) - offset < limit
               THEN (IF Len(f) > offset THEN Len(f) - offset ELSE 0)
               ELSE limit) |-> f[k + offset]]

\* [self._to_entity(row) for row in rows]: the first row that fails ends it.
Entities(tbl, f) ==
    [exc |-> IF \E k \in DOMAIN f : to_entity(tbl[f[k]]).exc # ""
             THEN to_entity(tbl[f[CHOOSE k \in DOMAIN f : to_entity(tbl[f[k]]).exc # ""]]).exc
             ELSE "",
     list |-> IF \E k \in DOMAIN f : to_entity(tbl[f[k]]).exc # ""
              THEN <<>>
              ELSE [k \in DOMAIN f |-> to_entity(tbl[f[k]]).post]]

\* list_published: WHERE status = 'published' AND language = $1.
list_published(tbl, lang, limit, offset) ==
    {Entities(tbl, Page(f, limit, offset)) :
        f \in Ordered(tbl, {i \in DOMAIN tbl :
                              tbl[i].status = PUBLISHED /\ tbl[i].language = lang})}

\* text ILIKE '%q%' for a lower-case q: the lower-cased substrings of text.
ILike(text, q) ==
    q \in (CASE text = "A" -> {"", "a"}
             [] text = "c" -> {"", "c"}
             [] text = "" -> {""}
             [] text = "S1" -> {"", "s", "1", "s1"}
             [] OTHER -> {})

\* search: published rows of the language whose title or content matches.
PostRepository_search(tbl, query, lang) ==
    {Entities(tbl, f) :
        f \in Ordered(tbl, {i \in DOMAIN tbl :
                              /\ tbl[i].status = PUBLISHED /\ tbl[i].language = lang
                              /\ ILike(tbl[i].title, query) \/ ILike(tbl[i].content, query)})}

SumViews(tbl, hit) ==
    LET RECURSIVE Sum(_)
        Sum(S) == IF S = {} THEN 0
                  ELSE LET i == CHOOSE x \in S : TRUE IN tbl[i].views + Sum(S \ {i})
    IN  Sum(hit)

\* get_stats: COUNT(*) and SUM(views), 0 for no rows.
get_stats(tbl, lang) ==
    LET hit == {i \in DOMAIN tbl : tbl[i].status = PUBLISHED /\ tbl[i].language = lang}
    IN  [post_count |-> Cardinality(hit), total_views |-> SumViews(tbl, hit)]

\* SubscriberRepository.save: ON CONFLICT (email) updates is_active only.
SubscriberRepository_save(tbl, s) ==
    LET hit == {i \in DOMAIN tbl : tbl[i].email = s.email}
    IN  IF hit = {}
        THEN Append(tbl, s)
        ELSE [i \in DOMAIN tbl |->
                IF i \in hit THEN [tbl[i] EXCEPT !.is_active = s.is_active] ELSE tbl[i]]

\* AdminRepository.save: ON CONFLICT (username) updates password_hash.
AdminRepository_save(tbl, a) ==
    LET hit == {i \in DOMAIN tbl : tbl[i].username = a.username}
    IN  IF hit = {}
        THEN Append(tbl, a)
        ELSE [i \in DOMAIN tbl |->
                IF i \in hit THEN [tbl[i] EXCEPT !.password_hash = a.password_hash] ELSE tbl[i]]

\* ------------------------------------------------------- src/main.py
\* admin_post_edit_post, lines 154-165: the form's fields assigned to the
\* loaded post, then publish() or the revert to draft. slugify(None), for a
\* form without a title, raises TypeError after title and title_it are set.
EditForms == [title : Titles \cup {NULL}, title_it : TitlesIt, status : {PUBLISHED, DRAFT, NULL}]

admin_edit_apply(p, form, now) ==
    LET q == [p EXCEPT !.title = form.title, !.title_it = form.title_it,
                       !.slug = slugify(form.title), !.content = "c",
                       !.content_it = form.title_it, !.media_url = NULL,
                       !.media_type = NULL, !.tags = <<>>]
    IN  IF form.title = NULL
        THEN [exc |-> "TypeError",
              post |-> [p EXCEPT !.title = NULL, !.title_it = form.title_it]]
        ELSE IF form.status = PUBLISHED /\ q.status # PUBLISHED
        THEN Post_publish(q, now)
        ELSE IF form.status = DRAFT
        THEN [exc |-> "", post |-> [q EXCEPT !.status = DRAFT]]
        ELSE [exc |-> "", post |-> q]

\* lifespan: the default admin is saved when absent.
DefaultAdmin == Admin_create("admin", "hash(mars2026)")

\* ------------------------------------------------------------- initial
NoReq == [lang |-> NULL, slug |-> NULL, post_id |-> 0, idx |-> 0]
NoLocal == [stop |-> "", found |-> FALSE, post |-> NoPost, list |-> <<>>, nq |-> 0, nw |-> 0]
NoResp == [handler |-> "none", status |-> "none", nq |-> 0, nw |-> 0]
NoEnt == [has |-> FALSE, post |-> NoPost]
NoRet == [op |-> "none", exc |-> "", found |-> FALSE, post |-> NoPost]

\* run_migration not called yet.
Migrators == 1..NumMigrators
MigCols == {"title_it", "content_it"}
NoMig ==
    [pc |-> "idle", calls |-> 0, retries |-> 0, attempts |-> 0, conn |-> FALSE,
     existing_cols |-> {}, pending |-> <<>>, stmts |-> 0, report |-> ""]

Init ==
    /\ columns = <<>>
    /\ lock = 0
    /\ mig = [m \in Migrators |-> NoMig]
    /\ posts = <<>>
    /\ subscribers = <<>>
    /\ admins = <<DefaultAdmin>>
    /\ clock = 0
    /\ nextId = 1
    /\ ent = NoEnt
    /\ ret = NoRet
    /\ pc = [c \in Clients |-> "idle"]
    /\ req = [c \in Clients |-> NoReq]
    /\ local = [c \in Clients |-> NoLocal]
    /\ cookie = [c \in Clients |-> <<>>]
    /\ session = [c \in Clients |-> NULL]
    /\ resp = NoResp

\* datetime.utcnow() advances between two readings.
Tick ==
    /\ clock < MaxClock
    /\ clock' = clock + 1
    /\ UNCHANGED <<migVars, posts, subscribers, admins, nextId, domVars, appVars>>

\* ------------------------------------------ DomainSpec: the API's caller
Returned(op, exc) == [op |-> op, exc |-> exc, found |-> FALSE, post |-> NoPost]

DCreate(t, ti) ==
    /\ ~ent.has
    /\ nextId <= MaxId
    /\ ent' = [has |-> TRUE,
               post |-> Post_create(nextId, t, slugify(t), "c", NULL, NULL, <<>>, ti, ti, clock)]
    /\ nextId' = nextId + 1
    /\ ret' = Returned("create", "")
    /\ UNCHANGED <<migVars, posts, subscribers, admins, clock, appVars>>

DPublish ==
    /\ ent.has
    /\ ent' = [ent EXCEPT !.post = Post_publish(ent.post, clock).post]
    /\ ret' = Returned("publish", Post_publish(ent.post, clock).exc)
    /\ UNCHANGED <<migVars, storeVars, appVars>>

DEdit(form) ==
    /\ ent.has
    /\ ent' = [ent EXCEPT !.post = admin_edit_apply(ent.post, form, clock).post]
    /\ ret' = Returned("edit", admin_edit_apply(ent.post, form, clock).exc)
    /\ UNCHANGED <<migVars, storeVars, appVars>>

DSave ==
    /\ ent.has
    /\ posts' = PostRepository_save(posts, ent.post).tbl
    /\ ret' = Returned("save", PostRepository_save(posts, ent.post).exc)
    /\ UNCHANGED <<migVars, subscribers, admins, clock, nextId, ent, appVars>>

DFindById ==
    /\ ent.has
    /\ \E r \in find_by_id(posts, ent.post.id) :
         ret' = [op |-> "find_by_id", exc |-> r.exc, found |-> r.found, post |-> r.post]
    /\ UNCHANGED <<migVars, storeVars, ent, appVars>>

DFindBySlug ==
    /\ ent.has
    /\ \E r \in find_by_slug(posts, ent.post.slug) :
         ret' = [op |-> "find_by_slug", exc |-> r.exc, found |-> r.found, post |-> r.post]
    /\ UNCHANGED <<migVars, storeVars, ent, appVars>>

DomainNext ==
    \/ Tick
    \/ \E t \in Titles \cup {NULL}, ti \in TitlesIt : DCreate(t, ti)
    \/ DPublish
    \/ \E f \in EditForms : DEdit(f)
    \/ DSave
    \/ DFindById
    \/ DFindBySlug

DomainSpec == Init /\ [][DomainNext]_vars

\* ------------------------------- RepoSpec: the three repositories' save
\* Entities a caller can hand to PostRepository.save.
PostInputs ==
    {Post(id, t, NULL, slugify(t), "c", NULL, NULL, NULL, <<>>, st, "en", 0, 0, clock,
          IF st = PUBLISHED THEN clock ELSE NoTime) :
        id \in Ids, t \in Titles, st \in {DRAFT, PUBLISHED}}

SubscriberInputs ==
    {[Subscriber_create(e, clock) EXCEPT !.is_active = a] : e \in {"x@mars"}, a \in BOOLEAN}

AdminInputs ==
    {Admin_create(u, h) : u \in {"admin"}, h \in {"hash(mars2026)", "hash(other)"}}

\* ret.found records that the table already held the very row being saved.
RPostSave(p) ==
    /\ Len(posts) <= MaxId
    /\ posts' = PostRepository_save(posts, p).tbl
    /\ ret' = [op |-> "save", exc |-> PostRepository_save(posts, p).exc,
               found |-> \E i \in DOMAIN posts : posts[i] = SaveArgs(p), post |-> NoPost]
    /\ UNCHANGED <<migVars, subscribers, admins, clock, nextId, ent, appVars>>

RSubscriberSave(s) ==
    /\ Len(subscribers) <= 1
    /\ subscribers' = SubscriberRepository_save(subscribers, s)
    /\ ret' = [op |-> "subscriber_save", exc |-> "",
               found |-> \E i \in DOMAIN subscribers : subscribers[i] = s, post |-> NoPost]
    /\ UNCHANGED <<migVars, posts, admins, clock, nextId, ent, appVars>>

RAdminSave(a) ==
    /\ Len(admins) <= 1
    /\ admins' = AdminRepository_save(admins, a)
    /\ ret' = [op |-> "admin_save", exc |-> "",
               found |-> \E i \in DOMAIN admins : admins[i] = a, post |-> NoPost]
    /\ UNCHANGED <<migVars, posts, subscribers, clock, nextId, ent, appVars>>

RepoNext ==
    \/ Tick
    \/ \E p \in PostInputs : RPostSave(p)
    \/ \E s \in SubscriberInputs : RSubscriberSave(s)
    \/ \E a \in AdminInputs : RAdminSave(a)

RepoSpec == Init /\ [][RepoNext]_vars


\* ------------------------------------------- Spec: the handlers of main.py
\* A handler with one storage await is one action. A handler with two runs
\* to the result of its first await in a ..._begin action, which answers at
\* once when the handler returns or raises there and otherwise leaves the
\* result in local[c], and from there to its response in a ..._finish
\* action.
Langs == {"en", "it", "fr"}     \* the {lang} path parameter
ReqSlugs == {"a"}               \* the {slug} path parameter
NewForms == [title : Titles \cup {NULL}, title_it : {"ti"}, status : {PUBLISHED, DRAFT}]
SubmittedEdits == {f \in EditForms : f.title_it = "ti"}

\* src/seed_data.py is not part of the sources: one seeded video's title.
SEED_VIDEOS == <<"S1">>
SeedTags == {"geology", "water"}    \* what random.choice may return

\* The login form's fields; NULL is a field the request does not carry.
Usernames == {"admin", "nobody"}
Passwords == {"mars2026", "wrong", NULL}

\* bcrypt.hashpw and bcrypt.checkpw (the salt left out).
hashpw(pw) == CASE pw = "mars2026" -> "hash(mars2026)" [] OTHER -> "hash(other)"
checkpw(pw, h) == hashpw(pw) = h

\* An uncaught exception is answered with status 500.
Status500(exc) ==
    CASE exc = "TypeError" -> "500:TypeError"
      [] exc = "ValueError" -> "500:ValueError"
      [] exc = "AttributeError" -> "500:AttributeError"
      [] OTHER -> "500:UniqueViolationError"

\* get_current_admin: the session's user, or None.
get_current_admin(c) == session[c]

Authed(c) == get_current_admin(c) # NULL

\* What a point lookup leaves in the handler's locals.
Loaded(r) ==
    [stop |-> IF r.exc = "" THEN "" ELSE Status500(r.exc),
     found |-> r.found, post |-> r.post, list |-> <<>>, nq |-> 1, nw |-> 0]

\* What a listing query leaves in the handler's locals.
Listed(r) ==
    [stop |-> IF r.exc = "" THEN "" ELSE Status500(r.exc),
     found |-> FALSE, post |-> NoPost, list |-> r.list, nq |-> 1, nw |-> 0]

Stopped(status) ==
    [stop |-> status, found |-> FALSE, post |-> NoPost, list |-> <<>>, nq |-> 0, nw |-> 0]

\* The handler's first part: l.stop is the response when it ends there.
Begin(c, handler, r, l) ==
    /\ pc[c] = "idle"
    /\ IF l.stop # ""
       THEN /\ resp' = [handler |-> handler, status |-> l.stop, nq |-> l.nq, nw |-> l.nw]
            /\ UNCHANGED <<pc, req, local>>
       ELSE /\ pc' = [pc EXCEPT ![c] = handler]
            /\ req' = [req EXCEPT ![c] = r]
            /\ local' = [local EXCEPT ![c] = l]
            /\ UNCHANGED resp

Finish(c, status, nq, nw) ==
    /\ pc' = [pc EXCEPT ![c] = "idle"]
    /\ req' = [req EXCEPT ![c] = NoReq]
    /\ local' = [local EXCEPT ![c] = NoLocal]
    /\ resp' = [handler |-> pc[c], status |-> status, nq |-> nq, nw |-> nw]

\* AdminRepository.find_by_username
find_by_username(tbl, username) ==
    LET hit == {i \in DOMAIN tbl : tbl[i].username = username}
    IN  IF hit = {}
        THEN [found |-> FALSE, admin |-> Admin_create(NULL, NULL)]
        ELSE [found |-> TRUE, admin |-> tbl[CHOOSE i \in hit : TRUE]]

\* admin_login_post: `admin and bcrypt.checkpw(password.encode(...), ...)`;
\* form.get("password") is None when the field is absent, and None has no
\* encode, which is reached only when the admin was found.
admin_login_post(c, username, password) ==
    LET admin == find_by_username(admins, username)
        raises == admin.found /\ password = NULL
        ok == admin.found /\ ~raises /\ checkpw(password, admin.admin.password_hash)
    IN  /\ pc[c] = "idle"
        /\ session' = IF ok THEN [session EXCEPT ![c] = username] ELSE session
        /\ resp' = [handler |-> "admin_login_post",
                    status |-> IF raises THEN Status500("AttributeError")
                               ELSE IF ok THEN "303:/admin"
                               ELSE "200:Invalid credentials",
                    nq |-> 1, nw |-> 0]
        /\ UNCHANGED <<migVars, storeVars, domVars, pc, req, local, cookie>>

\* admin_post_new_post up to its response: the status and the table.
new_post_outcome(c, form) ==
    LET made == Post_create(nextId, form.title, slugify(form.title), "c", NULL, NULL,
                            <<>>, form.title_it, form.title_it, clock)
        pub == IF form.status = PUBLISHED
               THEN Post_publish(made, clock)
               ELSE [exc |-> "", post |-> made]
        sv == PostRepository_save(posts, pub.post)
    IN  IF ~Authed(c) THEN [status |-> "307:/admin/login", tbl |-> posts, nw |-> 0]
        ELSE IF form.title = NULL THEN [status |-> Status500("TypeError"), tbl |-> posts, nw |-> 0]
        ELSE IF pub.exc # "" THEN [status |-> Status500(pub.exc), tbl |-> posts, nw |-> 0]
        ELSE IF sv.exc # "" THEN [status |-> Status500(sv.exc), tbl |-> posts, nw |-> 1]
        ELSE [status |-> "303:/admin", tbl |-> sv.tbl, nw |-> 1]

admin_post_new_post(c, form) ==
    /\ pc[c] = "idle"
    /\ (Authed(c) /\ form.title # NULL) => nextId <= MaxId
    /\ posts' = new_post_outcome(c, form).tbl
    /\ nextId' = IF posts' # posts THEN nextId + 1 ELSE nextId
    /\ resp' = [handler |-> "admin_post_new_post",
                status |-> new_post_outcome(c, form).status, nq |-> 0,
                nw |-> new_post_outcome(c, form).nw]
    /\ UNCHANGED <<migVars, subscribers, admins, clock, domVars, pc, req, local, cookie, session>>

admin_post_edit_begin(c, post_id) ==
    /\ \E r \in find_by_id(posts, post_id) :
         Begin(c, "admin_post_edit_post", [NoReq EXCEPT !.post_id = post_id],
               IF Authed(c) THEN Loaded(r) ELSE Stopped("307:/admin/login"))
    /\ UNCHANGED <<migVars, storeVars, domVars, cookie, session>>

\* admin_post_edit_post after find_by_id: None has no attribute title.
edit_outcome(c, form) ==
    LET ap == admin_edit_apply(local[c].post, form, clock)
        sv == PostRepository_save(posts, ap.post)
    IN  IF local[c].stop # "" THEN [status |-> local[c].stop, tbl |-> posts, nw |-> 0]
        ELSE IF ~local[c].found THEN [status |-> Status500("AttributeError"), tbl |-> posts, nw |-> 0]
        ELSE IF ap.exc # "" THEN [status |-> Status500(ap.exc), tbl |-> posts, nw |-> 0]
        ELSE IF sv.exc # "" THEN [status |-> Status500(sv.exc), tbl |-> posts, nw |-> 1]
        ELSE [status |-> "303:/admin", tbl |-> sv.tbl, nw |-> 1]

admin_post_edit_finish(c, form) ==
    /\ pc[c] = "admin_post_edit_post"
    /\ posts' = edit_outcome(c, form).tbl
    /\ Finish(c, edit_outcome(c, form).status, local[c].nq, edit_outcome(c, form).nw)
    /\ UNCHANGED <<migVars, subscribers, admins, clock, nextId, domVars, cookie, session>>

admin_post_delete(c, post_id) ==
    /\ pc[c] = "idle"
    /\ posts' = IF Authed(c) THEN SelectSeq(posts, LAMBDA row : row.id # post_id) ELSE posts
    /\ resp' = IF Authed(c)
               THEN [handler |-> "admin_post_delete", status |-> "303:/admin", nq |-> 0, nw |-> 1]
               ELSE [handler |-> "admin_post_delete", status |-> "307:/admin/login", nq |-> 0, nw |-> 0]
    /\ UNCHANGED <<migVars, subscribers, admins, clock, nextId, domVars, pc, req, local, cookie, session>>

admin_seed_begin(c) ==
    /\ Begin(c, "admin_seed", [NoReq EXCEPT !.idx = 1],
             IF Authed(c) THEN NoLocal ELSE Stopped("307:/admin/login"))
    /\ UNCHANGED <<migVars, storeVars, domVars, cookie, session>>

\* One turn of admin_seed's loop, with the response after the last item.
admin_seed_step(c, tag) ==
    LET title == SEED_VIDEOS[req[c].idx]
        made == Post_create(nextId, title, slugify(title), "c", "src", "video", <<tag>>,
                            NULL, NULL, clock)
        pub == Post_publish(made, clock)
        sv == PostRepository_save(posts, pub.post)
        exc == IF pub.exc # "" THEN pub.exc ELSE sv.exc
        n == local[c].nw + 1
    IN  /\ pc[c] = "admin_seed"
        /\ IF local[c].stop # ""
           THEN /\ Finish(c, local[c].stop, 0, 0)
                /\ UNCHANGED <<posts, nextId>>
           ELSE /\ nextId <= MaxId
                /\ posts' = IF exc = "" THEN sv.tbl ELSE posts
                /\ nextId' = IF exc = "" THEN nextId + 1 ELSE nextId
                /\ IF exc # "" THEN Finish(c, Status500(exc), 0, n)
                   ELSE IF req[c].idx = Len(SEED_VIDEOS) THEN Finish(c, "303:/admin", 0, n)
                   ELSE /\ req' = [req EXCEPT ![c].idx = @ + 1]
                        /\ local' = [local EXCEPT ![c].nw = n]
                        /\ UNCHANGED <<pc, resp>>
        /\ UNCHANGED <<migVars, subscribers, admins, clock, domVars, cookie, session>>

post_detail_begin(c, lang, slug) ==
    /\ \E r \in find_by_slug(posts, slug) :
         Begin(c, "post_detail", [NoReq EXCEPT !.slug = slug],
               IF lang \in SUPPORTED_LANGS THEN Loaded(r) ELSE Stopped("404:HTTPException"))
    /\ UNCHANGED <<migVars, storeVars, domVars, cookie, session>>

post_detail_finish(c) ==
    LET sv == PostRepository_save(posts, Post_increment_views(local[c].post))
        saves == local[c].stop = "" /\ local[c].found
    IN  /\ pc[c] = "post_detail"
        /\ saves => local[c].post.views < MaxCount
        /\ posts' = IF saves THEN sv.tbl ELSE posts
        /\ Finish(c,
                  IF local[c].stop # "" THEN local[c].stop
                  ELSE IF ~local[c].found THEN "404:404.html"
                  ELSE IF sv.exc # "" THEN Status500(sv.exc)
                  ELSE "200:post.html",
                  local[c].nq, IF saves THEN 1 ELSE 0)
        /\ UNCHANGED <<migVars, subscribers, admins, clock, nextId, domVars, cookie, session>>

\* The liked_posts cookie, split at its commas, is the list cookie[c].
Liked(c, slug) == \E i \in DOMAIN cookie[c] : cookie[c][i] = slug

post_like_begin(c, lang, slug, accept_json) ==
    /\ \E r \in find_by_slug(posts, slug) :
         Begin(c, "post_like", [NoReq EXCEPT !.slug = slug],
               IF lang \notin SUPPORTED_LANGS THEN Stopped("404:HTTPException")
               ELSE IF Liked(c, slug)
               THEN Stopped(IF accept_json THEN "200:Already acknowledged."
                            ELSE "303:/lang/post/slug")
               ELSE Loaded(r))
    /\ UNCHANGED <<migVars, storeVars, domVars, cookie, session>>

post_like_finish(c, accept_json) ==
    LET sv == PostRepository_save(posts, [local[c].post EXCEPT !.likes = @ + 1])
        saves == local[c].stop = "" /\ local[c].found
        redirect == "303:/lang/post/slug"
    IN  /\ pc[c] = "post_like"
        /\ saves => local[c].post.likes < MaxCount
        /\ posts' = IF saves THEN sv.tbl ELSE posts
        /\ cookie' = IF local[c].stop = "" /\ (saves => sv.exc = "")
                     THEN [cookie EXCEPT ![c] = Append(@, req[c].slug)]
                     ELSE cookie
        /\ Finish(c,
                  IF local[c].stop # "" THEN local[c].stop
                  ELSE IF saves /\ sv.exc # "" THEN Status500(sv.exc)
                  ELSE IF accept_json THEN "200:success" ELSE redirect,
                  local[c].nq, IF saves THEN 1 ELSE 0)
        /\ UNCHANGED <<migVars, subscribers, admins, clock, nextId, domVars, session>>

Next ==
    \/ Tick
    \/ \E c \in Clients :
         \/ \E u \in Usernames, pw \in Passwords : admin_login_post(c, u, pw)
         \/ \E f \in NewForms : admin_post_new_post(c, f)
         \/ \E id \in Ids : admin_post_edit_begin(c, id)
         \/ \E f \in SubmittedEdits : admin_post_edit_finish(c, f)
         \/ \E id \in Ids : admin_post_delete(c, id)
         \/ admin_seed_begin(c)
         \/ \E tag \in SeedTags : admin_seed_step(c, tag)
         \/ \E lang \in Langs, slug \in ReqSlugs : post_detail_begin(c, lang, slug)
         \/ post_detail_finish(c)
         \/ \E lang \in Langs, slug \in ReqSlugs, j \in BOOLEAN : post_like_begin(c, lang, slug, j)
         \/ \E j \in BOOLEAN : post_like_finish(c, j)

Spec == Init /\ [][Next]_vars


\* --------------------------------- PublicSpec: the language-scoped routes
Respond(handler, status, nq, nw) ==
    resp' = [handler |-> handler, status |-> status, nq |-> nq, nw |-> nw]

home_begin(c, lang) ==
    /\ \E r \in list_published(posts, lang, 5, 0) :
         Begin(c, "home", [NoReq EXCEPT !.lang = lang],
               IF lang \in SUPPORTED_LANGS THEN Listed(r) ELSE Stopped("404:HTTPException"))
    /\ UNCHANGED <<migVars, storeVars, domVars, cookie, session>>

home_finish(c) ==
    /\ pc[c] = "home"
    /\ get_stats(posts, req[c].lang).post_count >= 0
    /\ Finish(c, "200:index.html", local[c].nq + 1, 0)
    /\ UNCHANGED <<migVars, storeVars, domVars, cookie, session>>

\* A handler that lists once and renders: 404 before the query for an
\* unsupported language, 500 when the listing raises.
ListingStatus(lang, r, page) ==
    IF lang \notin SUPPORTED_LANGS THEN "404:HTTPException"
    ELSE IF r.exc # "" THEN Status500(r.exc)
    ELSE page

archive(c, lang) ==
    /\ pc[c] = "idle"
    /\ \E r \in list_published(posts, lang, 100, 0) :
         Respond("archive", ListingStatus(lang, r, "200:archive.html"),
                 IF lang \in SUPPORTED_LANGS THEN 1 ELSE 0, 0)
    /\ UNCHANGED <<migVars, storeVars, domVars, pc, req, local, cookie, session>>

subscribe(c, lang, email, accept_json) ==
    LET saves == lang \in SUPPORTED_LANGS /\ email \notin {NULL, ""}
    IN  /\ pc[c] = "idle"
        /\ subscribers' = IF saves
                          THEN SubscriberRepository_save(subscribers, Subscriber_create(email, clock))
                          ELSE subscribers
        /\ Respond("subscribe",
                   IF lang \notin SUPPORTED_LANGS THEN "404:HTTPException"
                   ELSE IF accept_json THEN "200:Subscription established."
                   ELSE "303:/lang",
                   0, IF saves THEN 1 ELSE 0)
        /\ UNCHANGED <<migVars, posts, admins, clock, nextId, domVars, pc, req, local, cookie, session>>

api_list_posts(c, lang, offset, limit) ==
    /\ pc[c] = "idle"
    /\ \E r \in list_published(posts, lang, limit, offset) :
         Respond("api_list_posts", ListingStatus(lang, r, "200:json"),
                 IF lang \in SUPPORTED_LANGS THEN 1 ELSE 0, 0)
    /\ UNCHANGED <<migVars, storeVars, domVars, pc, req, local, cookie, session>>

search(c, lang, q) ==
    /\ pc[c] = "idle"
    /\ \E r \in PostRepository_search(posts, q, lang) :
         Respond("search", ListingStatus(lang, r, "200:search.html"),
                 IF lang \in SUPPORTED_LANGS THEN 1 ELSE 0, 0)
    /\ UNCHANGED <<migVars, storeVars, domVars, pc, req, local, cookie, session>>

rss_feed(c, lang) ==
    /\ pc[c] = "idle"
    /\ \E r \in list_published(posts, lang, 10, 0) :
         Respond("rss_feed", ListingStatus(lang, r, "200:application/xml"),
                 IF lang \in SUPPORTED_LANGS THEN 1 ELSE 0, 0)
    /\ UNCHANGED <<migVars, storeVars, domVars, pc, req, local, cookie, session>>

PublicNext ==
    \/ Tick
    \/ admin_login_post(1, "admin", "mars2026")
    \/ \E f \in {g \in NewForms : g.title = "A"} : admin_post_new_post(1, f)
    \/ \E c \in Clients :
         \/ \E lang \in Langs : home_begin(c, lang)
         \/ home_finish(c)
         \/ \E lang \in Langs, slug \in ReqSlugs : post_detail_begin(c, lang, slug)
         \/ post_detail_finish(c)
         \/ \E lang \in Langs : archive(c, lang)
         \/ \E lang \in Langs, e \in {"", "x@mars"}, j \in BOOLEAN : subscribe(c, lang, e, j)
         \/ \E lang \in Langs, pg \in {<<0, 5>>, <<1, 1>>} : api_list_posts(c, lang, pg[1], pg[2])
         \/ \E lang \in Langs, slug \in ReqSlugs, j \in BOOLEAN : post_like_begin(c, lang, slug, j)
         \/ \E j \in BOOLEAN : post_like_finish(c, j)
         \/ \E lang \in Langs, q \in {"a", "z"} : search(c, lang, q)
         \/ \E lang \in Langs : rss_feed(c, lang)

PublicSpec == Init /\ [][PublicNext]_vars


\* ------------------------------- MigrationSpec: migrate_v1_multi_lang.py
Retries == 5

\* `except Exception` catches whatever asyncpg raises.
Caught(exc) == TRUE

\* `if 'title_it' not in existing_cols` with the test left out
NotInExisting_always(col, existing_cols) == TRUE

\* `if '<col>' not in existing_cols`
NotInExisting(col, existing_cols) == col \notin existing_cols

HasColumn(cols, col) == \E i \in DOMAIN cols : cols[i] = col

\* run_migration is called (again): lines 6-11.
run_migration(m) ==
    /\ mig[m].pc \in {"idle", "done"}
    /\ mig[m].calls < MaxRuns
    /\ mig' = [mig EXCEPT ![m] = [NoMig EXCEPT !.pc = "connect", !.retries = Retries,
                                                !.calls = mig[m].calls + 1]]
    /\ UNCHANGED <<columns, lock, storeVars, domVars, appVars>>

\* One turn of the retry loop up to its await: asyncpg.connect returns a
\* connection or raises.
connect(m, connected) ==
    /\ mig[m].pc = "connect"
    /\ mig' = [mig EXCEPT ![m] =
                 IF connected
                 THEN [@ EXCEPT !.attempts = @ + 1, !.conn = TRUE, !.pc = "fetch"]
                 ELSE IF Caught("OSError")
                 THEN [@ EXCEPT !.attempts = @ + 1, !.pc = "sleep"]
                 ELSE [@ EXCEPT !.attempts = @ + 1, !.pc = "raised"]]
    /\ UNCHANGED <<columns, lock, storeVars, domVars, appVars>>

\* asyncio.sleep(2) is over: retries -= 1, the loop test, and `if not conn`.
sleep(m) ==
    /\ mig[m].pc = "sleep"
    /\ mig' = [mig EXCEPT ![m] =
                 IF @.retries - 1 > 0
                 THEN [@ EXCEPT !.retries = @ - 1, !.pc = "connect"]
                 ELSE [@ EXCEPT !.retries = @ - 1, !.pc = "done",
                                !.report = "Could not connect to database."]]
    /\ UNCHANGED <<columns, lock, storeVars, domVars, appVars>>

\* An exception inside the try block, after `executed` ALTER statements
\* were sent by the failing call: the transaction is rolled back, the
\* except clause reports it, and the finally clause is next.
Failed(m, executed) ==
    /\ mig' = [mig EXCEPT ![m] =
                 [@ EXCEPT !.pending = <<>>, !.stmts = @ + executed,
                           !.report = IF Caught("PostgresError") THEN "Migration failed" ELSE @,
                           !.pc = IF Caught("PostgresError") THEN "close" ELSE "raised"]]
    /\ lock' = IF lock = m THEN 0 ELSE lock
    /\ UNCHANGED <<columns, storeVars, domVars, appVars>>

\* The transaction begins and the SELECT on information_schema.columns
\* returns the committed columns.
fetch(m, fails) ==
    /\ mig[m].pc = "fetch"
    /\ IF fails
       THEN Failed(m, 0)
       ELSE /\ mig' = [mig EXCEPT ![m] =
                         [@ EXCEPT !.existing_cols = {c \in MigCols : HasColumn(columns, c)},
                                   !.pc = "title_it"]]
            /\ UNCHANGED <<columns, lock, storeVars, domVars, appVars>>

\* `if col not in existing_cols: await conn.execute("ALTER TABLE posts ADD
\* COLUMN col TEXT;")`: the statement waits for the table's lock, and raises
\* when the column exists or the connection fails.
add_column(m, col, next, fails) ==
    /\ mig[m].pc = col
    /\ IF ~NotInExisting(col, mig[m].existing_cols)
       THEN /\ mig' = [mig EXCEPT ![m].pc = next]
            /\ UNCHANGED <<columns, lock, storeVars, domVars, appVars>>
       ELSE /\ lock \in {0, m}
            /\ IF fails \/ HasColumn(columns \o mig[m].pending, col)
               THEN Failed(m, 1)
               ELSE /\ mig' = [mig EXCEPT ![m] =
                                 [@ EXCEPT !.pending = Append(@, col),
                                           !.stmts = @ + 1, !.pc = next]]
                    /\ lock' = m
                    /\ UNCHANGED <<columns, storeVars, domVars, appVars>>

\* The `async with conn.transaction()` block ends: COMMIT.
commit(m, fails) ==
    /\ mig[m].pc = "commit"
    /\ IF fails
       THEN Failed(m, 0)
       ELSE /\ columns' = columns \o mig[m].pending
            /\ lock' = IF lock = m THEN 0 ELSE lock
            /\ mig' = [mig EXCEPT ![m] =
                         [@ EXCEPT !.pending = <<>>, !.pc = "close",
                                   !.report = "Migration completed successfully."]]
            /\ UNCHANGED <<storeVars, domVars, appVars>>

\* finally: await conn.close()
close(m) ==
    /\ mig[m].pc = "close"
    /\ mig' = [mig EXCEPT ![m] = [@ EXCEPT !.conn = FALSE, !.pc = "done"]]
    /\ UNCHANGED <<columns, lock, storeVars, domVars, appVars>>

MigStep(m) ==
    \/ \E connected \in BOOLEAN : connect(m, connected)
    \/ sleep(m)
    \/ \E fails \in BOOLEAN : fetch(m, fails)
    \/ \E fails \in BOOLEAN : add_column(m, "title_it", "content_it", fails)
    \/ \E fails \in BOOLEAN : add_column(m, "content_it", "commit", fails)
    \/ \E fails \in BOOLEAN : commit(m, fails)
    \/ close(m)

MigNext == \E m \in Migrators : run_migration(m) \/ MigStep(m)

\* The table as a deployment may have it before the first run.
InitialColumns == {<<>>, <<"title_it">>, <<"title_it", "content_it">>}

MigInit ==
    /\ columns \in InitialColumns
    /\ lock = 0
    /\ mig = [m \in Migrators |-> NoMig]
    /\ posts = <<>> /\ subscribers = <<>> /\ admins = <<DefaultAdmin>>
    /\ clock = 0 /\ nextId = 1 /\ ent = NoEnt /\ ret = NoRet
    /\ pc = [c \in Clients |-> "idle"]
    /\ req = [c \in Clients |-> NoReq]
    /\ local = [c \in Clients |-> NoLocal]
    /\ cookie = [c \in Clients |-> <<>>]
    /\ session = [c \in Clients |-> NULL]
    /\ resp = NoResp

\* The event loop resumes a coroutine whose await has completed.
MigrationSpec ==
    /\ MigInit /\ [][MigNext]_vars
    /\ \A m \in Migrators : WF_vars(MigStep(m))

\* ------------------------------------------------------------- claims

\* C1 (as stated): published_at, once assigned, never changes and is never
\* cleared, in the in-memory Post and in its stored row, whatever create,
\* publish, edit and save operations follow.
C1_PublishedAtAssignedOnce ==
    [][/\ (ent.has /\ ent.post.published_at # NoTime)
            => ent'.post.published_at = ent.post.published_at
       /\ \A i \in DOMAIN posts :
            posts[i].published_at # NoTime
            => posts'[i].published_at = posts[i].published_at]_vars

\* C4 (as stated): a find_by_id or find_by_slug that immediately follows a
\* successful save of a Post returns a Post equal to the saved one in every
\* field, title_it and content_it included.
C4_SaveThenFindRoundTrip ==
    [][(ret.op = "save" /\ ret.exc = "" /\ (DFindById \/ DFindBySlug))
        => (ret'.exc = "" /\ ret'.found /\ ret'.post = ent.post)]_vars

\* C5: publish() on a Post whose title is empty or None raises ValueError
\* and leaves status and published_at as they were, for a draft and for a
\* published post alike; the same holds of the publish() that an edit to
\* status 'published' makes on a draft whose new title is empty.
C5_PublishEmptyTitleFails ==
    [][/\ (DPublish /\ ent.post.title \in {NULL, ""})
            => /\ ret'.exc = "ValueError"
               /\ ent'.post.status = ent.post.status
               /\ ent'.post.published_at = ent.post.published_at
       /\ \A f \in EditForms :
            (DEdit(f) /\ f.status = PUBLISHED /\ f.title = "" /\ ent.post.status = DRAFT)
            => /\ ret'.exc = "ValueError"
               /\ ent'.post.status = DRAFT
               /\ ent'.post.published_at = ent.post.published_at]_vars

\* C5 witness: publish() has just failed on a post that is published and
\* has an empty title, and the post is still published with its timestamp.
C5_Witness ==
    /\ ent.has /\ ret.op = "publish" /\ ret.exc = "ValueError"
    /\ ent.post.title = "" /\ ent.post.status = PUBLISHED
    /\ ent.post.published_at # NoTime

UniqueKeys ==
    /\ \A i, j \in DOMAIN posts : posts[i].id = posts[j].id => i = j
    /\ \A i, j \in DOMAIN subscribers : subscribers[i].email = subscribers[j].email => i = j
    /\ \A i, j \in DOMAIN admins : admins[i].username = admins[j].username => i = j

\* C9: for each repository, saving an entity twice leaves the table as
\* saving it once does, and no table ever holds two rows with the same key
\* (posts.id, subscribers.email, admins.username).
C9_SaveIdempotent ==
    /\ UniqueKeys
    /\ \A p \in PostInputs :
         PostRepository_save(PostRepository_save(posts, p).tbl, p).tbl
           = PostRepository_save(posts, p).tbl
    /\ \A s \in SubscriberInputs :
         SubscriberRepository_save(SubscriberRepository_save(subscribers, s), s)
           = SubscriberRepository_save(subscribers, s)
    /\ \A a \in AdminInputs :
         AdminRepository_save(AdminRepository_save(admins, a), a)
           = AdminRepository_save(admins, a)

\* C9 witness: a Post was saved while its identical row was already stored,
\* next to another post's row, and the table holds one row per id.
C9_Witness ==
    /\ ret.op = "save" /\ ret.exc = "" /\ ret.found
    /\ Len(posts) = 2

\* ------------------------------------------------- claims on the handlers
HasSlug(tbl, slug) == \E i \in DOMAIN tbl : tbl[i].slug = slug

\* The stored likes of the post with this slug go up by exactly one.
LikesUpByOne(slug) ==
    /\ HasSlug(posts', slug)
    /\ \A i \in DOMAIN posts, j \in DOMAIN posts' :
         (posts[i].slug = slug /\ posts'[j].id = posts[i].id)
         => posts'[j].likes = posts[i].likes + 1

\* A like request of client c for slug is answered in this step: at its
\* lookup, or after it with the post that the lookup returned.
LikeAnsweredAtLookup(c, slug) ==
    \E lang \in SUPPORTED_LANGS, j \in BOOLEAN :
        post_like_begin(c, lang, slug, j) /\ pc'[c] = "idle"

LikeAnsweredAfterLookup(c, slug) ==
    /\ pc[c] = "post_like" /\ req[c].slug = slug /\ local[c].found
    /\ \E j \in BOOLEAN : post_like_finish(c, j)

\* C2 (as stated): under any interleaving, every like request of a client
\* without the post in its liked set, on a post that exists, raises the
\* stored likes by exactly one at the moment it is answered, so that N such
\* requests leave the counter N higher.
C2_NoLikeLost ==
    [][\A c \in Clients, slug \in ReqSlugs :
         /\ (LikeAnsweredAtLookup(c, slug) /\ ~Liked(c, slug) /\ HasSlug(posts, slug))
              => LikesUpByOne(slug)
         /\ LikeAnsweredAfterLookup(c, slug) => LikesUpByOne(slug)]_vars

\* C3 (as stated): with no other request in flight, a like request of a
\* client without the post in its liked set raises the post's likes by one
\* and puts the slug in the client's set; a like request of a client with
\* the post in its set changes no row and is answered "already
\* acknowledged" (to a JSON client; a browser is redirected to the post).
C3_SequentialLikes ==
    [][\A c \in Clients, slug \in ReqSlugs :
         /\ ( /\ \A d \in Clients \ {c} : pc[d] = "idle"
              /\ LikeAnsweredAtLookup(c, slug) \/ LikeAnsweredAfterLookup(c, slug)
              /\ ~Liked(c, slug) /\ HasSlug(posts, slug) )
              => (LikesUpByOne(slug) /\ Liked(c, slug)')
         /\ (LikeAnsweredAtLookup(c, slug) /\ Liked(c, slug))
              => /\ posts' = posts /\ cookie' = cookie
                 /\ resp'.status \in {"200:Already acknowledged.", "303:/lang/post/slug"}]_vars

\* C6: no stored post is published with an empty or absent title.
C6_PublishedHasTitle ==
    \A i \in DOMAIN posts : posts[i].status = PUBLISHED => posts[i].title \notin {"", NULL}

\* C6 witness: a published post is stored and the edit of it that an admin
\* submitted has been answered (with the TypeError of the lookup).
C6_Witness ==
    /\ \E i \in DOMAIN posts : posts[i].status = PUBLISHED /\ posts[i].title = "A"
    /\ resp.handler = "admin_post_edit_post" /\ resp.status = "500:TypeError"

C7_ListPublishedFilters ==
    \A lang \in SUPPORTED_LANGS : \A r \in list_published(posts, lang, MaxId + 1, 0) :
        /\ r.exc = ""
        /\ \A k \in DOMAIN r.list :
             r.list[k].status = PUBLISHED /\ r.list[k].language = lang
        /\ \A i \in DOMAIN posts :
             posts[i].status = PUBLISHED /\ posts[i].language = "en" =>
                 /\ lang = "en" => \E k \in DOMAIN r.list : r.list[k].id = posts[i].id
                 /\ lang = "it" => \A k \in DOMAIN r.list : r.list[k].id # posts[i].id

\* The languages C10 calls unsupported, among those requested.
UnsupportedLangs == Langs \ {"en", "it"}

PublicRequest(c, lang) ==
    \/ home_begin(c, lang)
    \/ \E slug \in ReqSlugs : post_detail_begin(c, lang, slug)
    \/ archive(c, lang)
    \/ \E e \in {"", "x@mars"}, j \in BOOLEAN : subscribe(c, lang, e, j)
    \/ \E pg \in {<<0, 5>>, <<1, 1>>} : api_list_posts(c, lang, pg[1], pg[2])
    \/ \E slug \in ReqSlugs, j \in BOOLEAN : post_like_begin(c, lang, slug, j)
    \/ \E q \in {"a", "z"} : search(c, lang, q)
    \/ rss_feed(c, lang)

\* C10: a request on any public route with a language outside {en, it} is
\* answered not-found, having issued no storage query and no storage write.
C10_UnsupportedLangNotFound ==
    [][\A c \in Clients, lang \in UnsupportedLangs :
          PublicRequest(c, lang) =>
              /\ resp'.status = "404:HTTPException"
              /\ resp'.nq = 0 /\ resp'.nw = 0
              /\ UNCHANGED <<migVars, storeVars, cookie, session>>
              /\ pc'[c] = "idle"]_vars

\* an unsupported language was refused while a published post and a
\* subscriber were in storage
C10_Witness ==
    /\ resp.status = "404:HTTPException"
    /\ resp.handler \in {"home", "post_detail", "archive", "subscribe",
                         "api_list_posts", "post_like", "search", "rss_feed"}
    /\ \E i \in DOMAIN posts : posts[i].status = PUBLISHED
    /\ subscribers # <<>>

\* C11 (as stated): a login attempt sets the session user and redirects to
\* the dashboard exactly when its username is a stored admin's and its
\* password matches that admin's hash; every other attempt, whatever
\* attempts came before, re-renders the form with "Invalid credentials" and
\* leaves the session as it was.
C11_LoginOnlyByMatchingPassword ==
    [][\A c \in Clients, u \in Usernames, pw \in Passwords :
         admin_login_post(c, u, pw) =>
             IF \E i \in DOMAIN admins :
                   admins[i].username = u /\ pw # NULL /\ admins[i].password_hash = hashpw(pw)
             THEN session'[c] = u /\ resp'.status = "303:/admin"
             ELSE session' = session /\ resp'.status = "200:Invalid credentials"]_vars

\* A request of client c on one of the four post-changing admin routes.
AdminPostRequest(c) ==
    \/ \E f \in NewForms : admin_post_new_post(c, f)
    \/ \E id \in Ids : admin_post_edit_begin(c, id)
    \/ \E id \in Ids : admin_post_delete(c, id)
    \/ admin_seed_begin(c)

\* The ids of the stored posts.
StoredIds(tbl) == {tbl[i].id : i \in DOMAIN tbl}

\* C12 (as stated): a create, edit, delete or seed request from a client
\* with no admin session is answered 401 and leaves every post as it was,
\* and a post is added to storage only by a request of a client whose
\* session holds the admin.
C12_UnauthenticatedRejected ==
    [][/\ \A c \in Clients :
            (~Authed(c) /\ AdminPostRequest(c))
            => /\ resp'.status = "401:HTTPException"
               /\ posts' = posts
               /\ pc'[c] = "idle"
       /\ StoredIds(posts') \ StoredIds(posts) # {}
            => \E c \in Clients : Authed(c)]_vars

\* How often a column name occurs among the table's columns.
Occurrences(cols, col) == Cardinality({i \in DOMAIN cols : cols[i] = col})

MigrationSafe(m) ==
    /\ mig[m].pc # "raised"
    /\ mig[m].attempts <= Retries
    /\ mig[m].report = "Could not connect to database."
         => (mig[m].attempts = Retries /\ mig[m].stmts = 0 /\ ~mig[m].conn)
    /\ mig[m].stmts <= Cardinality(MigCols \ mig[m].existing_cols)
    /\ \A col \in MigCols : Occurrences(columns, col) <= 1
    /\ (mig[m].pc = "done" /\ mig[m].report = "Migration completed successfully.")
         => \A col \in MigCols : Occurrences(columns, col) = 1

ViewsUpByOne(slug) ==
    /\ HasSlug(posts', slug)
    /\ \A i \in DOMAIN posts, j \in DOMAIN posts' :
         (posts[i].slug = slug /\ posts'[j].id = posts[i].id)
         => posts'[j].views = posts[i].views + 1

\* A detail request of client c for slug is answered in this step: at its
\* lookup, or after it.
DetailAnsweredAtLookup(c, slug) ==
    \E lang \in SUPPORTED_LANGS : post_detail_begin(c, lang, slug) /\ pc'[c] = "idle"

DetailAnsweredAfterLookup(c, slug) ==
    pc[c] = "post_detail" /\ req[c].slug = slug /\ post_detail_finish(c)

\* C14 (as stated): under any interleaving, every detail request for the
\* slug of an existing post raises the stored views by exactly one at the
\* moment it is answered, so that N such requests leave the counter N
\* higher; a detail request for a slug that no post has changes no row.
C14_EveryDetailFetchCounts ==
    [][\A c \in Clients, slug \in ReqSlugs :
         /\ (DetailAnsweredAtLookup(c, slug) /\ HasSlug(posts, slug)) => ViewsUpByOne(slug)
         /\ (DetailAnsweredAfterLookup(c, slug) /\ local[c].found) => ViewsUpByOne(slug)
         /\ (DetailAnsweredAfterLookup(c, slug) /\ ~local[c].found /\ ~HasSlug(posts, slug))
              => posts' = posts]_vars

PublishedHasTimestamp(p) == p.status = PUBLISHED => p.published_at # NoTime

\* C15: a post whose status is published has a published_at, in memory and
\* in storage; Post.create returns a draft without published_at; an edit
\* that sets status to draft leaves published_at as it was.
C15_PublishedHasPublishedAt ==
    /\ [](/\ ent.has => PublishedHasTimestamp(ent.post)
          /\ \A i \in DOMAIN posts : PublishedHasTimestamp(posts[i]))
    /\ [][/\ (\E t \in Titles \cup {NULL}, ti \in TitlesIt : DCreate(t, ti))
              => (ent'.post.status = DRAFT /\ ent'.post.published_at = NoTime)
         /\ \A f \in EditForms :
              (DEdit(f) /\ f.status = DRAFT /\ ret'.exc = "")
              => /\ ent'.post.status = DRAFT
                 /\ ent'.post.published_at = ent.post.published_at]_vars

\* C15 witness: a post that was published and saved has been set back to
\* draft by an edit and still has its published_at.
C15_Witness ==
    /\ ent.has /\ ret.op = "edit" /\ ret.exc = ""
    /\ ent.post.status = DRAFT /\ ent.post.published_at # NoTime
    /\ \E i \in DOMAIN posts : posts[i].id = ent.post.id /\ posts[i].status = PUBLISHED

====
